---- MODULE Spec2Model ----
(***************************************************************************)
(* A model of sociallistening.py: the retry wrapper call_with_retries, the *)
(* normalizer validate_and_normalize with its helper _to_float_clamped,    *)
(* the JSON extraction of analyze_message._do_call and the batch loop of   *)
(* main.                                                                   *)
(*                                                                         *)
(* Python values are records [kind, cs, n, d]:                             *)
(*   kind  "none" "bool" "int" "bigint" "float" "nan" "inf" "ninf"         *)
(*         "str" "list" "dict"                                             *)
(*   cs    the characters of a str (a sequence of one-character strings)   *)
(*   n     a bool (0/1), an int, or a finite float in hundredths           *)
(*   d     the items of a list (a sequence) or of a dict (a function       *)
(*         from keys to values)                                            *)
(* "nan", "inf" and "ninf" are the float values NaN, +Infinity, -Infinity. *)
(* "bigint" is an int too large for a float (json.loads yields such ints). *)
(***************************************************************************)
EXTENDS Integers, Sequences, FiniteSets, TLC

VARIABLES
  max_retries, base_delay, attempt, rpc, history, sleeps, outcome,
  result, npc, record, again,
  parts, resp, raw_text, raw, xpc, xout,
  rows, processed, message, results, mpc

vars == << max_retries, base_delay, attempt, rpc, history, sleeps, outcome,
           result, npc, record, again,
           parts, resp, raw_text, raw, xpc, xout,
           rows, processed, message, results, mpc >>

retryVars == << max_retries, base_delay, attempt, rpc, history, sleeps, outcome >>
normVars == << result, npc, record, again >>
extractVars == << parts, resp, raw_text, raw, xpc, xout >>
mainVars == << rows, processed, message, results, mpc >>

-----------------------------------------------------------------------------
(* Python values *)

PyNone == [kind |-> "none", cs |-> <<>>, n |-> 0, d |-> <<>>]
PyBool(b) == [kind |-> "bool", cs |-> <<>>, n |-> IF b THEN 1 ELSE 0, d |-> <<>>]
PyInt(i) == [kind |-> "int", cs |-> <<>>, n |-> i, d |-> <<>>]
PyBigInt == [kind |-> "bigint", cs |-> <<>>, n |-> 0, d |-> <<>>]
PyFloat(h) == [kind |-> "float", cs |-> <<>>, n |-> h, d |-> <<>>]
PyNaN == [kind |-> "nan", cs |-> <<>>, n |-> 0, d |-> <<>>]
PyInf == [kind |-> "inf", cs |-> <<>>, n |-> 0, d |-> <<>>]
PyNegInf == [kind |-> "ninf", cs |-> <<>>, n |-> 0, d |-> <<>>]
PyStr(s) == [kind |-> "str", cs |-> s, n |-> 0, d |-> <<>>]
PyList(items) == [kind |-> "list", cs |-> <<>>, n |-> 0, d |-> items]
PyDict(f) == [kind |-> "dict", cs |-> <<>>, n |-> 0, d |-> f]

(* An exception raised, or a value returned, by a modelled function. *)
Raise(e) == [raised |-> TRUE, exc |-> e, val |-> PyNone]
Return(v) == [raised |-> FALSE, exc |-> "", val |-> v]

-----------------------------------------------------------------------------
(* Configuration and the locked taxonomies *)

MAX_CHARS_PER_POST == 2000
MAX_RETRIES == 5
DEFAULT_BASE_DELAY == 1
MAX_RATIONALE_CHARS == 120

TOPICS ==
  << [topic_id |-> 1, topic |-> <<"H", "e", "a", "l", "t", "h", " ", "&", " ", "W", "e", "l", "l", "n", "e", "s", "s">>],
     [topic_id |-> 2, topic |-> <<"F", "i", "t", "n", "e", "s", "s", " ", "&", " ", "P", "h", "y", "s", "i", "c", "a", "l", " ", "A", "c", "t", "i", "v", "i", "t", "y">>],
     [topic_id |-> 3, topic |-> <<"C", "a", "r", "e", "e", "r", " ", "A", "d", "v", "a", "n", "c", "e", "m", "e", "n", "t">>],
     [topic_id |-> 4, topic |-> <<"L", "e", "a", "r", "n", "i", "n", "g", " ", "&", " ", "U", "p", "s", "k", "i", "l", "l", "i", "n", "g">>],
     [topic_id |-> 5, topic |-> <<"I", "n", "c", "o", "m", "e", " ", "&", " ", "F", "i", "n", "a", "n", "c", "i", "a", "l", " ", "G", "r", "o", "w", "t", "h">>],
     [topic_id |-> 6, topic |-> <<"F", "i", "n", "a", "n", "c", "i", "a", "l", " ", "D", "i", "s", "c", "i", "p", "l", "i", "n", "e", " ", "&", " ", "S", "e", "c", "u", "r", "i", "t", "y">>],
     [topic_id |-> 7, topic |-> <<"R", "e", "l", "a", "t", "i", "o", "n", "s", "h", "i", "p", "s", " ", "&", " ", "R", "o", "m", "a", "n", "t", "i", "c", " ", "L", "i", "f", "e">>],
     [topic_id |-> 8, topic |-> <<"F", "a", "m", "i", "l", "y", " ", "&", " ", "P", "a", "r", "e", "n", "t", "i", "n", "g">>],
     [topic_id |-> 9, topic |-> <<"S", "o", "c", "i", "a", "l", " ", "L", "i", "f", "e", " ", "&", " ", "F", "r", "i", "e", "n", "d", "s", "h", "i", "p", "s">>],
     [topic_id |-> 10, topic |-> <<"H", "o", "u", "s", "i", "n", "g", " ", "&", " ", "P", "r", "o", "p", "e", "r", "t", "y">>],
     [topic_id |-> 11, topic |-> <<"P", "e", "r", "s", "o", "n", "a", "l", " ", "G", "r", "o", "w", "t", "h", " ", "&", " ", "M", "i", "n", "d", "s", "e", "t">>],
     [topic_id |-> 12, topic |-> <<"L", "i", "f", "e", "s", "t", "y", "l", "e", " ", "&", " ", "E", "x", "p", "e", "r", "i", "e", "n", "c", "e", "s">>],
     [topic_id |-> 13, topic |-> <<"E", "n", "t", "r", "e", "p", "r", "e", "n", "e", "u", "r", "s", "h", "i", "p", " ", "&", " ", "B", "u", "s", "i", "n", "e", "s", "s", " ", "B", "u", "i", "l", "d", "i", "n", "g">>],
     [topic_id |-> 14, topic |-> <<"C", "o", "m", "m", "u", "n", "i", "t", "y", ",", " ", "P", "u", "r", "p", "o", "s", "e", " ", "&", " ", "G", "i", "v", "i", "n", "g", " ", "B", "a", "c", "k">>],
     [topic_id |-> 15, topic |-> <<"O", "t", "h", "e", "r", " ", "/", " ", "U", "n", "c", "l", "e", "a", "r">>] >>

OTHER_TOPIC == <<"O", "t", "h", "e", "r", " ", "/", " ", "U", "n", "c", "l", "e", "a", "r">>

ALLOWED_SENTIMENT ==
  << <<"P", "o", "s", "i", "t", "i", "v", "e">>,
     <<"N", "e", "g", "a", "t", "i", "v", "e">>,
     <<"N", "e", "u", "t", "r", "a", "l">>,
     <<"M", "i", "x", "e", "d">>,
     <<"U", "n", "c", "l", "e", "a", "r">> >>

UNCLEAR == <<"U", "n", "c", "l", "e", "a", "r">>

TopicNames == {TOPICS[i].topic : i \in DOMAIN TOPICS}
SentimentLabels == {ALLOWED_SENTIMENT[i] : i \in DOMAIN ALLOWED_SENTIMENT}

(* TOPIC_NAME_TO_ID[name], for a name that is a key. *)
TopicIdMisread(name) == TOPICS[Len(TOPICS)].topic_id
TOPIC_NAME_TO_ID(name) ==
  TOPICS[CHOOSE i \in DOMAIN TOPICS : TOPICS[i].topic = name].topic_id

-----------------------------------------------------------------------------
(* Python str operations, on sequences of characters *)

(* str.strip() removes these; json.loads skips only JsonWhitespace. *)
Whitespace == {" ", "\t", "\n", "\r", "\f"}
JsonWhitespace == {" ", "\t", "\n", "\r"}
(* The one character U+2026, HORIZONTAL ELLIPSIS (not whitespace). *)
Ellipsis == "U+2026"
Digits == <<"0", "1", "2", "3", "4", "5", "6", "7", "8", "9">>

SetMin(S) == CHOOSE x \in S : \A y \in S : x <= y
SetMax(S) == CHOOSE x \in S : \A y \in S : x >= y

Blank(s) == \A i \in 1..Len(s) : s[i] \in Whitespace
FirstNonBlank(s) ==
  CHOOSE i \in 1..Len(s) : s[i] \notin Whitespace /\ \A j \in 1..(i - 1) : s[j] \in Whitespace
LastNonBlank(s) ==
  CHOOSE i \in 1..Len(s) :
    s[i] \notin Whitespace /\ \A j \in (i + 1)..Len(s) : s[j] \in Whitespace

(* s.strip() *)
Strip(s) == IF Blank(s) THEN <<>> ELSE SubSeq(s, FirstNonBlank(s), LastNonBlank(s))

(* s.rstrip() *)
RStrip(s) == IF Blank(s) THEN <<>> ELSE SubSeq(s, 1, LastNonBlank(s))

(* s[:k] *)
Prefix(s, k) == SubSeq(s, 1, IF Len(s) < k THEN Len(s) ELSE k)

(* s[i:j + 1] for 0-based i, j, as Python slices it *)
Slice(s, i, j) == SubSeq(s, i + 1, IF Len(s) < j + 1 THEN Len(s) ELSE j + 1)

UpperLetters ==
  << "A", "B", "C", "D", "E", "F", "G", "H", "I", "J", "K", "L", "M",
     "N", "O", "P", "Q", "R", "S", "T", "U", "V", "W", "X", "Y", "Z" >>
LowerLetters ==
  << "a", "b", "c", "d", "e", "f", "g", "h", "i", "j", "k", "l", "m",
     "n", "o", "p", "q", "r", "s", "t", "u", "v", "w", "x", "y", "z" >>

(* s.lower(), for ASCII letters *)
LowerChar(c) ==
  IF \E i \in DOMAIN UpperLetters : UpperLetters[i] = c
    THEN LowerLetters[CHOOSE i \in DOMAIN UpperLetters : UpperLetters[i] = c]
    ELSE c
Lower(s) == [i \in 1..Len(s) |-> LowerChar(s[i])]

IsDigit(c) == \E i \in DOMAIN Digits : Digits[i] = c
DigitValue(c) == (CHOOSE i \in DOMAIN Digits : Digits[i] = c) - 1
DigitChar(v) == Digits[v + 1]

RECURSIVE DigitsValue(_)
DigitsValue(s) ==
  IF s = <<>> THEN 0
  ELSE 10 * DigitsValue(SubSeq(s, 1, Len(s) - 1)) + DigitValue(s[Len(s)])

RECURSIVE NatToChars(_)
NatToChars(v) ==
  IF v < 10 THEN <<DigitChar(v)>>
  ELSE NatToChars(v \div 10) \o <<DigitChar(v % 10)>>

-----------------------------------------------------------------------------
(* float(x) and str(x) *)

(* The decimal literals float() reads here: digits with at most one point *)
(* and at most two digits after it (the resolution of a modelled float).  *)
PointAt(s) == {i \in 1..Len(s) : s[i] = "."}
IsDecimal(s) ==
  /\ Len(s) > 0
  /\ \A i \in 1..Len(s) : IsDigit(s[i]) \/ s[i] = "."
  /\ Cardinality(PointAt(s)) <= 1
  /\ \E i \in 1..Len(s) : IsDigit(s[i])
  /\ \A p \in PointAt(s) : Len(s) - p <= 2
DecimalValue(s) ==
  IF PointAt(s) = {} THEN 100 * DigitsValue(s)
  ELSE LET p == CHOOSE q \in PointAt(s) : TRUE
           frac == SubSeq(s, p + 1, Len(s))
       IN  100 * DigitsValue(SubSeq(s, 1, p - 1))
           + (IF Len(frac) = 1 THEN 10 * DigitsValue(frac) ELSE DigitsValue(frac))

(* float(s) for a str s: surrounding whitespace is ignored, then an       *)
(* optional sign, then nan / inf / infinity in any case or a decimal.     *)
FloatOfStr(s) ==
  LET t == Strip(s)
      signed == Len(t) > 0 /\ t[1] \in {"+", "-"}
      neg == Len(t) > 0 /\ t[1] = "-"
      body == IF signed THEN Tail(t) ELSE t
      low == Lower(body)
  IN  IF low = <<"n", "a", "n">> THEN Return(PyNaN)
      ELSE IF low \in { <<"i", "n", "f">>,
                        <<"i", "n", "f", "i", "n", "i", "t", "y">> }
        THEN Return(IF neg THEN PyNegInf ELSE PyInf)
      ELSE IF IsDecimal(body)
        THEN Return(PyFloat(IF neg THEN 0 - DecimalValue(body)
                                   ELSE DecimalValue(body)))
      ELSE Raise("ValueError")

(* float(x) *)
FloatOf(x) ==
  CASE x.kind = "bool" -> Return(PyFloat(100 * x.n))
    [] x.kind = "int" -> Return(PyFloat(100 * x.n))
    [] x.kind = "bigint" -> Raise("OverflowError")
    [] x.kind \in {"float", "nan", "inf", "ninf"} -> Return(x)
    [] x.kind = "str" -> FloatOfStr(x.cs)
    [] OTHER -> Raise("TypeError")

(* v < c and v > c for a float v and a finite c in hundredths; every      *)
(* comparison with NaN is false.                                          *)
FloatLess(v, c) == (v.kind = "float" /\ v.n < c) \/ v.kind = "ninf"
FloatGreater(v, c) == (v.kind = "float" /\ v.n > c) \/ v.kind = "inf"

(* repr of a finite float given in hundredths *)
FloatChars(h) ==
  LET a == IF h < 0 THEN 0 - h ELSE h
      whole == NatToChars(a \div 100)
      frac == IF a % 10 = 0 THEN <<DigitChar((a % 100) \div 10)>>
              ELSE <<DigitChar((a % 100) \div 10), DigitChar(a % 10)>>
  IN  (IF h < 0 THEN <<"-">> ELSE <<>>) \o whole \o <<".">> \o frac

BigIntChars == <<"1">> \o [i \in 1..400 |-> "0"]

KeyChars(k) ==
  CASE k = "topic_id" -> <<"t", "o", "p", "i", "c", "_", "i", "d">>
    [] k = "topic" -> <<"t", "o", "p", "i", "c">>
    [] k = "subtopic" -> <<"s", "u", "b", "t", "o", "p", "i", "c">>
    [] k = "confidence" -> <<"c", "o", "n", "f", "i", "d", "e", "n", "c", "e">>
    [] k = "rationale" -> <<"r", "a", "t", "i", "o", "n", "a", "l", "e">>
    [] k = "newSentiment" ->
         <<"n", "e", "w", "S", "e", "n", "t", "i", "m", "e", "n", "t">>
    [] k = "newSentimentConfidence" ->
         <<"n", "e", "w", "S", "e", "n", "t", "i", "m", "e", "n", "t",
           "C", "o", "n", "f", "i", "d", "e", "n", "c", "e">>
    [] k = "meta" -> <<"m", "e", "t", "a">>

(* The keys a modelled dict can hold, in the order it lists them. *)
KeyOrder ==
  << "topic_id", "topic", "subtopic", "confidence", "rationale",
     "newSentiment", "newSentimentConfidence", "meta" >>

RECURSIVE Repr(_), ReprItems(_, _), ReprMembers(_, _)

(* repr(x): str(x) for everything but a str, which repr quotes. *)
Repr(x) ==
  CASE x.kind = "none" -> <<"N", "o", "n", "e">>
    [] x.kind = "bool" -> IF x.n = 1 THEN <<"T", "r", "u", "e">>
                          ELSE <<"F", "a", "l", "s", "e">>
    [] x.kind = "int" -> IF x.n < 0 THEN <<"-">> \o NatToChars(0 - x.n)
                         ELSE NatToChars(x.n)
    [] x.kind = "bigint" -> BigIntChars
    [] x.kind = "float" -> FloatChars(x.n)
    [] x.kind = "nan" -> <<"n", "a", "n">>
    [] x.kind = "inf" -> <<"i", "n", "f">>
    [] x.kind = "ninf" -> <<"-", "i", "n", "f">>
    [] x.kind = "str" -> <<"'">> \o x.cs \o <<"'">>
    [] x.kind = "list" -> <<"[">> \o ReprItems(x.d, 1) \o <<"]">>
    [] x.kind = "dict" -> <<"{">> \o ReprMembers(x.d, 1) \o <<"}">>

ReprItems(items, i) ==
  IF i > Len(items) THEN <<>>
  ELSE Repr(items[i])
       \o (IF i < Len(items) THEN <<",", " ">> ELSE <<>>)
       \o ReprItems(items, i + 1)

ReprMembers(f, i) ==
  IF i > Len(KeyOrder) THEN <<>>
  ELSE LET k == KeyOrder[i]
           later == \E j \in (i + 1)..Len(KeyOrder) : KeyOrder[j] \in DOMAIN f
       IN  (IF k \in DOMAIN f
              THEN <<"'">> \o KeyChars(k) \o <<"'", ":", " ">> \o Repr(f[k])
                   \o (IF later THEN <<",", " ">> ELSE <<>>)
              ELSE <<>>)
           \o ReprMembers(f, i + 1)

(* str(x) *)
StrOf(x) == IF x.kind = "str" THEN x.cs ELSE Repr(x)

(* bool(x) for the values `not subtopic` is asked of: a str or None *)
Truthy(x) == x.kind = "str" /\ x.cs # <<>>

(* hash(x) raises TypeError for a list and for a dict *)
Hashable(x) == x.kind \notin {"list", "dict"}

-----------------------------------------------------------------------------
(* trim_text *)

TrimText(text) ==
  LET t == Strip(text)
  IN  IF Len(t) <= MAX_CHARS_PER_POST THEN t
      ELSE RStrip(Prefix(t, MAX_CHARS_PER_POST)) \o <<Ellipsis>>

-----------------------------------------------------------------------------
(* _to_float_clamped *)

ToFloatClamped(x) ==
  LET f == FloatOf(x)
      v0 == IF f.raised THEN PyFloat(0) ELSE f.val
      v1 == IF FloatLess(v0, 0) THEN PyFloat(0) ELSE v0
  IN  IF FloatGreater(v1, 100) THEN PyFloat(100) ELSE v1

-----------------------------------------------------------------------------
(* validate_and_normalize *)

(* result.get(key, default) *)
Get(f, key, default) == IF key \in DOMAIN f THEN f[key] ELSE default

(* topic in TOPIC_NAME_TO_ID, for a hashable topic *)
InTopicNameToId(topic) ==
  topic.kind = "str" /\ \E i \in DOMAIN TOPICS : TOPICS[i].topic = topic.cs

(* new_sent in ALLOWED_SENTIMENT *)
InAllowedSentiment(new_sent) ==
  new_sent.kind = "str"
  /\ \E i \in DOMAIN ALLOWED_SENTIMENT : ALLOWED_SENTIMENT[i] = new_sent.cs

NormalizeSubtopic(subtopic0) ==
  LET s1 == IF subtopic0.kind # "none" /\ subtopic0.kind # "str"
              THEN PyStr(StrOf(subtopic0)) ELSE subtopic0
      s2 == IF s1.kind = "str" THEN PyStr(Strip(s1.cs)) ELSE PyNone
  IN  IF ~Truthy(s2) THEN PyNone ELSE s2

TruncateKeepingBlanks(s) ==
  IF Len(s) > MAX_RATIONALE_CHARS
    THEN Prefix(s, MAX_RATIONALE_CHARS) \o <<Ellipsis>>
    ELSE s
TruncateRationale(s) ==
  IF Len(s) > MAX_RATIONALE_CHARS
    THEN RStrip(Prefix(s, MAX_RATIONALE_CHARS)) \o <<Ellipsis>>
    ELSE s

NormalizeRationale(rationale0) ==
  LET r1 == IF rationale0.kind # "str" THEN StrOf(rationale0) ELSE rationale0.cs
  IN  PyStr(TruncateRationale(Strip(r1)))

(* The nudge of lines 144-146, on the resolved topic; 70 is 0.7. *)
CapWhateverTheTopic(topic, new_sent_conf) ==
  IF FloatGreater(new_sent_conf, 70) THEN PyFloat(70) ELSE new_sent_conf
CapBySubtracting(topic, new_sent_conf) ==
  IF topic.cs = OTHER_TOPIC /\ FloatGreater(new_sent_conf, 70)
    THEN (IF new_sent_conf.kind = "float" THEN PyFloat(new_sent_conf.n - 20)
          ELSE PyFloat(70))
    ELSE new_sent_conf
CapSentimentConfidence(topic, new_sent_conf) ==
  IF topic.cs = OTHER_TOPIC /\ FloatGreater(new_sent_conf, 70)
    THEN PyFloat(70) ELSE new_sent_conf

ValidateAndNormalize(res) ==
  IF res.kind # "dict" THEN Raise("AttributeError")
  ELSE
    LET topic0 == Get(res.d, "topic", PyNone)
    IN  IF ~Hashable(topic0) THEN Raise("TypeError")
        ELSE
          LET topic == IF ~InTopicNameToId(topic0) THEN PyStr(OTHER_TOPIC) ELSE topic0
              subtopic == NormalizeSubtopic(Get(res.d, "subtopic", PyNone))
              confidence == ToFloatClamped(Get(res.d, "confidence", PyFloat(0)))
              rationale == NormalizeRationale(Get(res.d, "rationale", PyStr(<<>>)))
              ns0 == Get(res.d, "newSentiment", PyNone)
              new_sent == IF ~InAllowedSentiment(ns0) THEN PyStr(UNCLEAR) ELSE ns0
              nsc0 == ToFloatClamped(Get(res.d, "newSentimentConfidence", PyFloat(0)))
              new_sent_conf == CapSentimentConfidence(topic, nsc0)
          IN  IF topic.cs \notin TopicNames THEN Raise("KeyError")
              ELSE Return(PyDict(
                [topic_id |-> PyInt(TOPIC_NAME_TO_ID(topic.cs)),
                 topic |-> topic,
                 subtopic |-> subtopic,
                 confidence |-> confidence,
                 rationale |-> rationale,
                 newSentiment |-> new_sent,
                 newSentimentConfidence |-> new_sent_conf]))

-----------------------------------------------------------------------------
(* json.loads, on the characters of the text *)

Quote == "\""

RECURSIVE Join(_)
(* The key a dict holds for the characters of a JSON member name. *)
Join(s) == IF s = <<>> THEN "" ELSE s[1] \o Join(Tail(s))

At(s, i) == IF i >= 1 /\ i <= Len(s) THEN s[i] ELSE ""

StartsWith(s, i, lit) ==
  i + Len(lit) - 1 <= Len(s) /\ SubSeq(s, i, i + Len(lit) - 1) = lit

(* The first index from i on that holds no JSON whitespace (Len(s) + 1 at the end). *)
SkipWhitespace(s, i) ==
  CHOOSE j \in i..(Len(s) + 1) :
    /\ j = Len(s) + 1 \/ s[j] \notin JsonWhitespace
    /\ \A k \in i..(j - 1) : s[k] \in JsonWhitespace

ParseFail == [ok |-> FALSE, val |-> PyNone, pos |-> 0]
ParseOk(v, p) == [ok |-> TRUE, val |-> v, pos |-> p]

(* A string literal opening at s[i]: unescaped characters up to the next quote; *)
(* a control character inside it is an error.                                   *)
ScanString(s, i) ==
  LET closing == {j \in (i + 1)..Len(s) : s[j] = Quote}
  IN  IF closing = {} THEN ParseFail
      ELSE LET j == SetMin(closing)
               body == SubSeq(s, i + 1, j - 1)
           IN  IF \E k \in 1..Len(body) : body[k] \in {"\t", "\n", "\r", "\f"}
                 THEN ParseFail
                 ELSE ParseOk(PyStr(body), j + 1)

(* The end of the run of digits that starts at s[i] (i - 1 when there is none). *)
DigitsEnd(s, i) ==
  SetMax({i - 1} \cup {j \in i..Len(s) : \A k \in i..j : IsDigit(s[k])})

(* A number: an optional minus, then 0 or a run of digits not led by 0, then *)
(* optionally a point and digits. An int without the fraction, else a float. *)
ScanNumber(s, i) ==
  LET neg == At(s, i) = "-"
      a == IF neg THEN i + 1 ELSE i
      e0 == DigitsEnd(s, a)
      e == IF At(s, a) = "0" THEN a ELSE e0
      whole == DigitsValue(SubSeq(s, a, e))
      f == IF At(s, e + 1) = "." THEN DigitsEnd(s, e + 2) ELSE e + 1
      frac == SubSeq(s, e + 2, f)
      sign == IF neg THEN -1 ELSE 1
  IN  IF e0 < a THEN ParseFail
      ELSE IF f < e + 2 THEN ParseOk(PyInt(sign * whole), e + 1)
      ELSE ParseOk(PyFloat(sign * (100 * whole
                     + (IF Len(frac) = 1 THEN 10 * DigitsValue(frac)
                        ELSE DigitsValue(SubSeq(frac, 1, 2))))), f + 1)

RECURSIVE ParseValue(_, _), ParseMembers(_, _, _), ParseItems(_, _, _)

(* scan_once at s[i] *)
ParseValue(s, i) ==
  LET c == At(s, i)
  IN  IF c = Quote THEN ScanString(s, i)
      ELSE IF c = "{" THEN
        LET j == SkipWhitespace(s, i + 1)
        IN  IF At(s, j) = "}" THEN ParseOk(PyDict(<<>>), j + 1)
            ELSE ParseMembers(s, j, <<>>)
      ELSE IF c = "[" THEN
        LET j == SkipWhitespace(s, i + 1)
        IN  IF At(s, j) = "]" THEN ParseOk(PyList(<<>>), j + 1)
            ELSE ParseItems(s, j, <<>>)
      ELSE IF StartsWith(s, i, <<"n", "u", "l", "l">>) THEN ParseOk(PyNone, i + 4)
      ELSE IF StartsWith(s, i, <<"t", "r", "u", "e">>) THEN ParseOk(PyBool(TRUE), i + 4)
      ELSE IF StartsWith(s, i, <<"f", "a", "l", "s", "e">>)
        THEN ParseOk(PyBool(FALSE), i + 5)
      ELSE IF ScanNumber(s, i).ok THEN ScanNumber(s, i)
      ELSE IF StartsWith(s, i, <<"N", "a", "N">>) THEN ParseOk(PyNaN, i + 3)
      ELSE IF StartsWith(s, i, <<"I", "n", "f", "i", "n", "i", "t", "y">>)
        THEN ParseOk(PyInf, i + 8)
      ELSE IF StartsWith(s, i, <<"-", "I", "n", "f", "i", "n", "i", "t", "y">>)
        THEN ParseOk(PyNegInf, i + 9)
      ELSE ParseFail

(* The members of an object from s[i] on, where a member name must open. *)
ParseMembers(s, i, acc) ==
  IF At(s, i) # Quote THEN ParseFail
  ELSE
    LET key == ScanString(s, i)
        colon == SkipWhitespace(s, key.pos)
        v == ParseValue(s, SkipWhitespace(s, colon + 1))
        after == SkipWhitespace(s, v.pos)
        name == Join(key.val.cs)
        more == [k \in DOMAIN acc \cup {name} |-> IF k = name THEN v.val ELSE acc[k]]
    IN  IF ~key.ok THEN ParseFail
        ELSE IF At(s, colon) # ":" THEN ParseFail
        ELSE IF ~v.ok THEN ParseFail
        ELSE IF At(s, after) = "}" THEN ParseOk(PyDict(more), after + 1)
        ELSE IF At(s, after) = ","
          THEN ParseMembers(s, SkipWhitespace(s, after + 1), more)
        ELSE ParseFail

(* The items of an array from s[i] on. *)
ParseItems(s, i, acc) ==
  LET v == ParseValue(s, i)
      after == SkipWhitespace(s, v.pos)
  IN  IF ~v.ok THEN ParseFail
      ELSE IF At(s, after) = "]" THEN ParseOk(PyList(Append(acc, v.val)), after + 1)
      ELSE IF At(s, after) = ","
        THEN ParseItems(s, SkipWhitespace(s, after + 1), Append(acc, v.val))
      ELSE ParseFail

(* json.loads(s): one value, whitespace around it, nothing else. *)
JsonLoads(s) ==
  LET v == ParseValue(s, SkipWhitespace(s, 1))
  IN  IF ~v.ok THEN Raise("JSONDecodeError")
      ELSE IF SkipWhitespace(s, v.pos) # Len(s) + 1 THEN Raise("JSONDecodeError")
      ELSE Return(v.val)

-----------------------------------------------------------------------------
(* Raw results handed to validate_and_normalize *)

MaxHundredths == 150
MaxPad == 3

Rep(c, k) == [i \in 1..k |-> c]

(* A key the raw object does not hold. *)
Missing == [kind |-> "missing", cs |-> <<>>, n |-> 0, d |-> <<>>]
Obj(fields) ==
  PyDict([k \in {f \in DOMAIN fields : fields[f].kind # "missing"} |-> fields[k]])

FieldNames ==
  {"topic", "subtopic", "confidence", "rationale", "newSentiment",
   "newSentimentConfidence"}

NoFields == [k \in FieldNames |-> Missing]

HealthTopic == TOPICS[1].topic

TopicInputs ==
  { Missing, PyNone, PyStr(HealthTopic), PyStr(TOPICS[3].topic), PyStr(OTHER_TOPIC),
    PyStr(Lower(HealthTopic)), PyStr(<<" ">> \o HealthTopic), PyStr(<<>>),
    PyInt(1), PyInt(15), PyBool(TRUE), PyNaN, PyList(<<>>),
    PyList(<<PyStr(HealthTopic)>>), PyDict(<<>>) }

SentimentInputs ==
  { Missing, PyNone, PyStr(ALLOWED_SENTIMENT[1]), PyStr(ALLOWED_SENTIMENT[4]),
    PyStr(UNCLEAR), PyStr(Lower(ALLOWED_SENTIMENT[1])),
    PyStr(<<"H", "a", "p", "p", "y">>), PyInt(1), PyList(<<>>),
    PyList(<<PyStr(ALLOWED_SENTIMENT[1])>>), PyDict(<<>>) }

ConfidenceInputs ==
  { PyFloat(h) : h \in {g \in (0 - MaxHundredths)..MaxHundredths :
                          g % 25 = 0 \/ g \in {-1, 1, 69, 70, 71, 99, 101}} }
  \cup { PyInt(i) : i \in {-3, 0, 1, 2} }
  \cup { Missing, PyNone, PyBigInt, PyNaN, PyInf, PyNegInf, PyBool(TRUE), PyBool(FALSE),
         PyStr(<<"0", ".", "9">>), PyStr(<<" ", "0", ".", "7", "1", "\n">>),
         PyStr(<<"-", "2">>), PyStr(<<"1", ".">>), PyStr(<<".", "5">>),
         PyStr(<<"N", "a", "N">>), PyStr(<<"-", "I", "n", "f", "i", "n", "i", "t", "y">>),
         PyStr(<<"i", "n", "f">>), PyStr(<<"h", "i", "g", "h">>), PyStr(<<>>),
         PyStr(<<"1", ".", "2", ".", "3">>),
         PyList(<<>>), PyList(<<PyFloat(50)>>), PyDict(<<>>),
         PyDict([confidence |-> PyFloat(50)]) }

SubtopicInputs ==
  { Missing, PyNone, PyStr(<<>>), PyStr(<<" ", "\t">>), PyStr(<<"g", "y", "m">>),
    PyStr(<<" ", "g", "y", "m", " ">>), PyInt(0), PyInt(-12), PyFloat(50), PyFloat(125),
    PyBool(FALSE), PyNaN, PyList(<<>>), PyList(<<PyInt(1), PyStr(<<"a">>)>>),
    PyDict(<<>>), PyDict([topic |-> PyStr(<<"a">>), meta |-> PyNone]) }

(* lead blanks, a letters, gap blanks, b letters or ellipsis marks, trail blanks *)
RationaleText(lead, a, gap, c, b, trail) ==
  Rep(" ", lead) \o Rep("x", a) \o Rep(" ", gap) \o Rep(c, b) \o Rep(" ", trail)

RationaleStrings ==
  { RationaleText(lead, a, gap, c, b, trail) :
      lead \in {0, 1}, 
      a \in {0, 1} \cup (MAX_RATIONALE_CHARS - MaxPad)..(MAX_RATIONALE_CHARS + 1),
      gap \in 0..MaxPad, c \in {"y", Ellipsis}, b \in 0..MaxPad, trail \in {0, 1} }

RationaleInputs ==
  { PyStr(s) : s \in RationaleStrings }
  \cup { Missing, PyNone, PyInt(7), PyFloat(50), PyBigInt, PyBool(TRUE), PyList(<<>>),
         PyDict(<<>>) }

WellFormed ==
  [topic |-> PyStr(HealthTopic), subtopic |-> PyStr(<<"g", "y", "m">>),
   confidence |-> PyFloat(90), rationale |-> PyStr(<<"o", "k">>),
   newSentiment |-> PyStr(ALLOWED_SENTIMENT[1]),
   newSentimentConfidence |-> PyFloat(80)]

(* topic x newSentiment x newSentimentConfidence *)
TopicFamily ==
  { Obj([NoFields EXCEPT !["topic"] = t, !["newSentiment"] = s,
                         !["newSentimentConfidence"] = c]) :
      t \in TopicInputs, s \in SentimentInputs, c \in ConfidenceInputs }

(* confidence x subtopic, the topic valid *)
FieldFamily ==
  { Obj([WellFormed EXCEPT !["confidence"] = c, !["subtopic"] = s]) :
      c \in ConfidenceInputs, s \in SubtopicInputs }

(* rationale, under a valid, a fallback and a missing topic *)
RationaleFamily ==
  { Obj([WellFormed EXCEPT !["rationale"] = r, !["topic"] = t]) :
      r \in RationaleInputs, t \in {PyStr(HealthTopic), PyStr(OTHER_TOPIC), Missing} }

(* every subset of the six fields, well formed or all null *)
SubsetFamily ==
  { Obj([k \in FieldNames |-> IF k \in K THEN WellFormed[k] ELSE Missing]) :
      K \in SUBSET FieldNames }
  \cup { Obj([k \in FieldNames |-> IF k \in K THEN PyNone ELSE Missing]) :
           K \in SUBSET FieldNames }

(* what json.loads can return that is not an object *)
NonObjects ==
  { PyNone, PyList(<<>>), PyList(<<Obj(WellFormed)>>), PyStr(<<>>), PyStr(HealthTopic),
    PyInt(0), PyFloat(50), PyNaN, PyBool(TRUE) }

RawResults ==
  TopicFamily \cup FieldFamily \cup RationaleFamily \cup SubsetFamily \cup NonObjects

-----------------------------------------------------------------------------
(* validate_and_normalize called on a raw result, then on its own record *)

NormIdle ==
  /\ result = PyNone
  /\ npc = "idle"
  /\ record = Return(PyNone)
  /\ again = Return(PyNone)

NormInit ==
  /\ result \in RawResults
  /\ npc = "call"
  /\ record = Return(PyNone)
  /\ again = Return(PyNone)

Normalize ==
  /\ npc = "call"
  /\ record' = ValidateAndNormalize(result)
  /\ npc' = IF record'.raised THEN "raised" ELSE "returned"
  /\ UNCHANGED << result, again >>

Renormalize ==
  /\ npc = "returned"
  /\ again' = ValidateAndNormalize(record.val)
  /\ npc' = "renormalized"
  /\ UNCHANGED << result, record >>

-----------------------------------------------------------------------------
(* analyze_message._do_call: the response text, the JSON in it, the record *)

(* s.find(c) and s.rfind(c): a 0-based index, or -1 *)
Find(s, c) ==
  IF \E i \in 1..Len(s) : s[i] = c
    THEN (CHOOSE i \in 1..Len(s) : s[i] = c /\ \A k \in 1..(i - 1) : s[k] # c) - 1
    ELSE -1
RFind(s, c) ==
  IF \E i \in 1..Len(s) : s[i] = c
    THEN (CHOOSE i \in 1..Len(s) : s[i] = c /\ \A k \in (i + 1)..Len(s) : s[k] # c) - 1
    ELSE -1

(* raw_text[start : end + 1] *)
BraceSliceWithoutLast(text, start, end) == Slice(text, start, end - 1)
BraceSlice(text, start, end) == Slice(text, start, end)

(* (resp.output_text or "").strip() *)
RawText(output_text) ==
  Strip(IF output_text.kind = "str" THEN output_text.cs ELSE <<>>)

(* Lines 178-185: the whole text, else the text from the first opening brace *)
(* to the last closing brace; a bare raise re-raises the first failure.       *)
ExtractJson(text) ==
  LET whole == JsonLoads(text)
      start == Find(text, "{")
      end == RFind(text, "}")
  IN  IF ~whole.raised THEN whole
      ELSE IF start = -1 \/ end = -1 \/ end <= start THEN whole
      ELSE JsonLoads(BraceSlice(text, start, end))

(* _do_call, given what client.responses.create did: raised, or returned a *)
(* response whose output_text is a str or None.                            *)
DoCall(response) ==
  IF response.raised THEN response
  ELSE LET parsed == ExtractJson(RawText(response.val))
       IN  IF parsed.raised THEN parsed ELSE ValidateAndNormalize(parsed.val)

(* Texts that are one JSON object. *)
ObjectTexts ==
  << <<"{", "}">>,
     <<"{", Quote, "t", "o", "p", "i", "c", Quote, ":", Quote, "H", "e", "a", "l", "t",
       "h", " ", "&", " ", "W", "e", "l", "l", "n", "e", "s", "s", Quote, "}">>,
     <<"{", Quote, "t", "o", "p", "i", "c", Quote, ":", " ", Quote, "O", "t", "h", "e",
       "r", " ", "/", " ", "U", "n", "c", "l", "e", "a", "r", Quote, ",", " ", Quote,
       "n", "e", "w", "S", "e", "n", "t", "i", "m", "e", "n", "t", "C", "o", "n", "f",
       "i", "d", "e", "n", "c", "e", Quote, ":", " ", "0", ".", "9", ",", " ", Quote,
       "m", "e", "t", "a", Quote, ":", " ", "{", Quote, "t", "o", "p", "i", "c", Quote,
       ":", " ", "n", "u", "l", "l", "}", "}">>,
     <<"{", Quote, "t", "o", "p", "i", "c", Quote, ":", " ", "[", Quote, "H", "e", "a",
       "l", "t", "h", " ", "&", " ", "W", "e", "l", "l", "n", "e", "s", "s", Quote,
       "]", "}">>,
     <<"{", Quote, "c", "o", "n", "f", "i", "d", "e", "n", "c", "e", Quote, ":", " ",
       "N", "a", "N", ",", " ", Quote, "s", "u", "b", "t", "o", "p", "i", "c", Quote,
       ":", " ", Quote, "a", " ", "}", " ", "b", Quote, "}">>,
     <<"{", " ", Quote, "r", "a", "t", "i", "o", "n", "a", "l", "e", Quote, " ", ":",
       " ", Quote, "o", "k", Quote, " ", ",", "\n", " ", Quote, "n", "e", "w", "S",
       "e", "n", "t", "i", "m", "e", "n", "t", Quote, ":", Quote, "M", "i", "x", "e",
       "d", Quote, " ", "}">>,
     <<"{", Quote, "t", "o", "p", "i", "c", Quote, ":", " ", Quote, "C", "a", "r", "e",
       "e", "r", " ", "A", "d", "v", "a", "n", "c", "e", "m", "e", "n", "t", Quote,
       ",", " ", Quote, "c", "o", "n", "f", "i", "d", "e", "n", "c", "e", Quote, ":",
       " ", "1", ",", " ", Quote, "n", "e", "w", "S", "e", "n", "t", "i", "m", "e",
       "n", "t", "C", "o", "n", "f", "i", "d", "e", "n", "c", "e", Quote, ":", " ",
       "-", "I", "n", "f", "i", "n", "i", "t", "y", "}">> >>

(* Texts that are no JSON object: other JSON values, malformed JSON, plain text. *)
OtherTexts ==
  << <<>>,
     <<"n", "o", "t", " ", "j", "s", "o", "n">>,
     <<"[", "1", ",", " ", "2", ".", "5", "]">>,
     <<"n", "u", "l", "l">>,
     <<Quote, "h", "i", Quote>>,
     <<"{", Quote, "t", "o", "p", "i", "c", Quote, ":", " ", "}">>,
     <<"{", Quote, "t", "o", "p", "i", "c", Quote, ":", Quote, "H", "e", "a", "l", "t",
       "h", " ", "&", " ", "W", "e", "l", "l", "n", "e", "s", "s", Quote>>,
     <<"{", Quote, "a", Quote, ":", "1", "}", " ", "{", Quote, "b", Quote, ":", "2", "}">>,
     <<"0", "1">> >>

(* Text a response may hold before or after the object. *)
NoiseTexts ==
  << <<"n", "o", "i", "s", "e", " ">>,
     <<" ", "t", "r", "a", "i", "l", "i", "n", "g">>,
     <<" ", "{", " ">>,
     <<" ", "}", " ">>,
     <<"[">>,
     <<"]">>,
     <<Quote>>,
     <<"~", "~", "~", "j", "s", "o", "n", "\n">>,
     <<"\n", "~", "~", "~">>,
     <<" ", "\f", " ">>,
     <<"s", "e", "e", " ", "{", "x", "}", ":", " ">>,
     <<"{", Quote, "a", Quote, ":", "1", "}">> >>

NoiseCount == 10

Noise ==
  {<<>>} \cup {NoiseTexts[i] : i \in {j \in DOMAIN NoiseTexts : j <= NoiseCount}}

Bodies ==
  {ObjectTexts[i] : i \in DOMAIN ObjectTexts}
  \cup {OtherTexts[i] : i \in DOMAIN OtherTexts}

(* What the service can do: fail, answer without text, or answer a text made *)
(* of a body with text before and after it.                                  *)
ServiceFailure == Raise("APIConnectionError")
NoParts == [lead |-> <<>>, body |-> <<>>, trail |-> <<>>]
OutputText(p) == p.lead \o p.body \o p.trail

ExtractIdle ==
  /\ parts = NoParts
  /\ resp = Return(PyNone)
  /\ raw_text = <<>>
  /\ raw = Return(PyNone)
  /\ xpc = "idle"
  /\ xout = Return(PyNone)

ExtractInit ==
  /\ \/ /\ parts \in [lead : Noise, body : Bodies, trail : Noise]
        /\ resp = Return(PyStr(OutputText(parts)))
     \/ /\ parts = NoParts
        /\ resp \in {ServiceFailure, Return(PyNone)}
  /\ raw_text = <<>>
  /\ raw = Return(PyNone)
  /\ xpc = "call"
  /\ xout = Return(PyNone)

(* _do_call fails before it has a text. *)
DoCallNoResponse ==
  /\ xpc = "call"
  /\ resp.raised
  /\ xout' = DoCall(resp)
  /\ xpc' = "raised"
  /\ UNCHANGED << parts, resp, raw_text, raw >>

(* _do_call on a response. *)
DoCallOnResponse ==
  /\ xpc = "call"
  /\ ~resp.raised
  /\ raw_text' = RawText(resp.val)
  /\ raw' = ExtractJson(raw_text')
  /\ xout' = DoCall(resp)
  /\ xpc' = IF xout'.raised THEN "raised" ELSE "returned"
  /\ UNCHANGED << parts, resp >>

-----------------------------------------------------------------------------
(* call_with_retries(fn, max_retries, base_delay) *)

MaxAttempts == 4
MaxBaseDelay == 3

(* What fn() can do on one invocation: return a value or raise a failure. *)
OperationOutcomes ==
  { Return(PyInt(v)) : v \in {1, 2} }
  \cup { Raise(e) : e \in {"APIConnectionError", "APITimeoutError", "JSONDecodeError"} }

(* attempt == max_retries - 1 *)
IsPastFinalAttempt(a, n) == a = n
IsFinalAttempt(a, n) == a = n - 1

(* base_delay * (2 ** attempt) *)
LinearDelay(base, a) == base * (a + 1)
BackoffDelay(base, a) == base * (2 ^ a)

RetryIdle ==
  /\ max_retries = 0
  /\ base_delay = 0
  /\ attempt = 0
  /\ rpc = "idle"
  /\ history = <<>>
  /\ sleeps = <<>>
  /\ outcome = Return(PyNone)

(* The call is entered: range(max_retries) starts at 0, fn has not run, *)
(* nothing has been slept.                                             *)
RetryEntered(n, base) ==
  /\ max_retries = n
  /\ base_delay = base
  /\ attempt = 0
  /\ rpc = "loop"
  /\ history = <<>>
  /\ sleeps = <<>>
  /\ outcome = Return(PyNone)

RetryInit == \E n \in 0..MaxAttempts, base \in 1..MaxBaseDelay : RetryEntered(n, base)

(* fn() returns: the wrapper returns its result. *)
AttemptReturns(o) ==
  /\ rpc = "loop"
  /\ attempt < max_retries
  /\ ~o.raised
  /\ history' = Append(history, o)
  /\ outcome' = o
  /\ rpc' = "returned"
  /\ UNCHANGED << max_retries, base_delay, attempt, sleeps >>

(* fn() raises on the final attempt: the wrapper re-raises. *)
AttemptRaises(o) ==
  /\ rpc = "loop"
  /\ attempt < max_retries
  /\ o.raised
  /\ IsFinalAttempt(attempt, max_retries)
  /\ history' = Append(history, o)
  /\ outcome' = o
  /\ rpc' = "raised"
  /\ UNCHANGED << max_retries, base_delay, attempt, sleeps >>

(* fn() raises on an earlier attempt: the wrapper sleeps and goes on. *)
AttemptSleeps(o) ==
  /\ rpc = "loop"
  /\ attempt < max_retries
  /\ o.raised
  /\ ~IsFinalAttempt(attempt, max_retries)
  /\ history' = Append(history, o)
  /\ sleeps' = Append(sleeps, BackoffDelay(base_delay, attempt))
  /\ attempt' = attempt + 1
  /\ UNCHANGED << max_retries, base_delay, rpc, outcome >>

(* range(max_retries) is used up: the function ends and returns None. *)
RangeExhausted ==
  /\ rpc = "loop"
  /\ attempt >= max_retries
  /\ outcome' = Return(PyNone)
  /\ rpc' = "returned"
  /\ UNCHANGED << max_retries, base_delay, attempt, history, sleeps >>

-----------------------------------------------------------------------------
(* main: the batch loop over the rows of the frame *)

MaxRows == 2

(* str(e) of a caught exception: the message of e, which the model leaves *)
(* uninterpreted (an exception is known here by its type alone).          *)
ErrorText(e) == [message_of |-> e]

(* except Exception catches every failure analyze_message can raise. *)
CatchesDecodeErrorsOnly(e) == e = "JSONDecodeError"
Catches(e) == TRUE

(* What the service does on the calls of the batch. *)
BatchResponses ==
  { ServiceFailure,
    Return(PyStr(OtherTexts[2])),
    Return(PyStr(OtherTexts[3])),
    Return(PyStr(NoiseTexts[1] \o ObjectTexts[2] \o NoiseTexts[2])) }

(* What _do_call does on them. *)
BatchOutcomes == { DoCall(r) : r \in BatchResponses }

Messages == { <<>>, <<" ">>, <<"r", "u", "n">>, <<" ", "g", "y", "m", "\n">> }

(* Lines 203-208: RowId numbers the rows read, then the rows whose stripped *)
(* message is empty are dropped.                                            *)
Frame(messages) ==
  LET numbered == [i \in 1..Len(messages) |->
                     [RowId |-> i, Message |-> messages[i],
                      msg_clean |-> Strip(messages[i])]]
      Kept(r) == Len(r.msg_clean) > 0
  IN  SelectSeq(numbered, Kept)

Merge(f, g) == [k \in DOMAIN f \cup DOMAIN g |-> IF k \in DOMAIN g THEN g[k] ELSE f[k]]

(* out_row of lines 227 and 235 *)
OutRow(row, o) ==
  LET base == [RowId |-> PyInt(row.RowId), Message |-> PyStr(row.Message)]
  IN  IF o.raised THEN Merge(base, [error |-> ErrorText(o.exc)])
      ELSE Merge(base, o.val.d)

MainIdle ==
  /\ rows = <<>>
  /\ processed = 0
  /\ message = <<>>
  /\ results = <<>>
  /\ mpc = "idle"

MainInit ==
  /\ \E k \in 0..MaxRows : \E messages \in [1..k -> Messages] : rows = Frame(messages)
  /\ processed = 0
  /\ message = <<>>
  /\ results = <<>>
  /\ mpc = "loop"

(* The loop takes the next row and enters analyze_message: the message is *)
(* trimmed and call_with_retries(_do_call) is entered with its defaults.  *)
BeginRow ==
  /\ mpc = "loop"
  /\ processed < Len(rows)
  /\ processed' = processed + 1
  /\ message' = TrimText(rows[processed'].msg_clean)
  /\ mpc' = "analyzing"
  /\ max_retries' = MAX_RETRIES
  /\ base_delay' = DEFAULT_BASE_DELAY
  /\ attempt' = 0
  /\ rpc' = "loop"
  /\ history' = <<>>
  /\ sleeps' = <<>>
  /\ outcome' = Return(PyNone)
  /\ UNCHANGED << rows, results >>

(* analyze_message is over: the row's record or error entry is appended. *)
EndRow ==
  /\ mpc = "analyzing"
  /\ rpc \in {"returned", "raised"}
  /\ rpc' = "idle"
  /\ IF outcome.raised /\ ~Catches(outcome.exc)
       THEN /\ mpc' = "aborted"
            /\ UNCHANGED results
       ELSE /\ mpc' = "loop"
            /\ results' = Append(results, OutRow(rows[processed], outcome))
  /\ UNCHANGED << rows, processed, message, max_retries, base_delay, attempt,
                  history, sleeps, outcome >>

(* The rows are used up: the results are written out. *)
Finish ==
  /\ mpc = "loop"
  /\ processed = Len(rows)
  /\ mpc' = "done"
  /\ UNCHANGED << rows, processed, message, results, retryVars >>

-----------------------------------------------------------------------------
(* Specifications *)

(* call_with_retries on any operation *)
InitRetry == RetryInit /\ NormIdle /\ ExtractIdle /\ MainIdle
NextRetry ==
  \/ \E o \in OperationOutcomes :
       AttemptReturns(o) /\ UNCHANGED << normVars, extractVars, mainVars >>
  \/ \E o \in OperationOutcomes :
       AttemptRaises(o) /\ UNCHANGED << normVars, extractVars, mainVars >>
  \/ \E o \in OperationOutcomes :
       AttemptSleeps(o) /\ UNCHANGED << normVars, extractVars, mainVars >>
  \/ RangeExhausted /\ UNCHANGED << normVars, extractVars, mainVars >>
SpecRetry == InitRetry /\ [][NextRetry]_vars

(* validate_and_normalize on any raw result *)
InitNorm == NormInit /\ RetryIdle /\ ExtractIdle /\ MainIdle
NextNorm ==
  \/ Normalize /\ UNCHANGED << retryVars, extractVars, mainVars >>
  \/ Renormalize /\ UNCHANGED << retryVars, extractVars, mainVars >>
SpecNorm == InitNorm /\ [][NextNorm]_vars

(* _do_call on any response *)
InitExtract == ExtractInit /\ RetryIdle /\ NormIdle /\ MainIdle
NextExtract ==
  \/ DoCallNoResponse /\ UNCHANGED << retryVars, normVars, mainVars >>
  \/ DoCallOnResponse /\ UNCHANGED << retryVars, normVars, mainVars >>
SpecExtract == InitExtract /\ [][NextExtract]_vars

(* main over any frame; with max_retries = MAX_RETRIES the range of the *)
(* retry loop is never used up.                                         *)
InitMain == MainInit /\ RetryIdle /\ NormIdle /\ ExtractIdle
NextMain ==
  \/ BeginRow /\ UNCHANGED << normVars, extractVars >>
  \/ \E o \in BatchOutcomes :
       AttemptReturns(o) /\ UNCHANGED << normVars, extractVars, mainVars >>
  \/ \E o \in BatchOutcomes :
       AttemptRaises(o) /\ UNCHANGED << normVars, extractVars, mainVars >>
  \/ \E o \in BatchOutcomes :
       AttemptSleeps(o) /\ UNCHANGED << normVars, extractVars, mainVars >>
  \/ EndRow /\ UNCHANGED << normVars, extractVars >>
  \/ Finish /\ UNCHANGED << normVars, extractVars >>
SpecMain == InitMain /\ [][NextMain]_vars

Init == InitMain
Next == NextMain
Spec == SpecMain

-----------------------------------------------------------------------------
(* Properties of call_with_retries, under SpecRetry *)

AttemptPossible ==
  \E o \in OperationOutcomes :
    ENABLED (AttemptReturns(o) \/ AttemptRaises(o) \/ AttemptSleeps(o))

(* C1: with max_retries >= 1, a call that returned did so on the first      *)
(* invocation that succeeded, after k failures, k + 1 invocations and k     *)
(* sleeps, with that invocation's result; a call that raised did so after   *)
(* max_retries failed invocations and max_retries - 1 sleeps, with the last *)
(* invocation's failure; and once it is over the operation is not invoked   *)
(* again.                                                                   *)
RetryContract ==
  max_retries >= 1 =>
    /\ rpc = "returned" =>
         /\ Len(history) \in 1..max_retries
         /\ \A i \in 1..(Len(history) - 1) : history[i].raised
         /\ ~history[Len(history)].raised
         /\ outcome = history[Len(history)]
         /\ Len(sleeps) = Len(history) - 1
    /\ rpc = "raised" =>
         /\ Len(history) = max_retries
         /\ \A i \in 1..max_retries : history[i].raised
         /\ outcome = history[max_retries]
         /\ Len(sleeps) = max_retries - 1
    /\ rpc \in {"returned", "raised"} => ~AttemptPossible

(* Two failures, then a success on the third of three attempts. *)
RetryContractWitness ==
  /\ max_retries = 3
  /\ rpc = "returned"
  /\ Len(history) = 3
  /\ history[1].raised /\ history[2].raised
  /\ Len(sleeps) = 2

RECURSIVE SumSeq(_)
SumSeq(q) == IF q = <<>> THEN 0 ELSE q[1] + SumSeq(Tail(q))

(* C9: the i-th sleep (counted from 1) lasts base_delay * 2^(i-1): the first *)
(* lasts base_delay, each later one twice the one before, whatever failed;   *)
(* when all max_retries attempts fail the sleeps add up to                   *)
(* base_delay * (2^(max_retries-1) - 1).                                     *)
BackoffSchedule ==
  /\ \A i \in 1..Len(sleeps) : sleeps[i] = base_delay * (2 ^ (i - 1))
  /\ Len(sleeps) >= 1 => sleeps[1] = base_delay
  /\ \A i \in 2..Len(sleeps) : sleeps[i] = 2 * sleeps[i - 1]
  /\ (rpc = "raised" /\ max_retries >= 1) =>
       SumSeq(sleeps) = base_delay * ((2 ^ (max_retries - 1)) - 1)

(* Four attempts with a base delay of 2 all fail, on three kinds of failure. *)
BackoffScheduleWitness ==
  /\ rpc = "raised"
  /\ max_retries = 4
  /\ base_delay = 2
  /\ sleeps = <<2, 4, 8>>
  /\ Cardinality({history[i].exc : i \in 1..3}) = 3

-----------------------------------------------------------------------------
(* Properties of validate_and_normalize, under SpecNorm *)

Returned == npc \in {"returned", "renormalized"}
Out == record.val.d
RawField(k, default) == Get(result.d, k, default)

(* C2: validate_and_normalize never raises, whatever the raw input. *)
NormalizeNeverRaises == npc # "raised"

(* C3: a returned record has a topic among the 15 taxonomy names, the id the *)
(* table pairs with that name, and a sentiment among the 5 labels; a raw     *)
(* topic that is not exactly a name gives "Other / Unclear" with id 15, a    *)
(* raw sentiment that is not exactly a label gives "Unclear".                *)
TaxonomyClosed ==
  Returned =>
    LET rawTopic == RawField("topic", PyNone)
        rawSent == RawField("newSentiment", PyNone)
    IN  /\ Cardinality(TopicNames) = 15
        /\ Cardinality(SentimentLabels) = 5
        /\ Out.topic.kind = "str"
        /\ \E i \in DOMAIN TOPICS :
             TOPICS[i].topic = Out.topic.cs /\ Out.topic_id = PyInt(TOPICS[i].topic_id)
        /\ IF rawTopic.kind = "str" /\ rawTopic.cs \in TopicNames
             THEN Out.topic = rawTopic
             ELSE Out.topic.cs = OTHER_TOPIC /\ Out.topic_id = PyInt(15)
        /\ Out.newSentiment.kind = "str"
        /\ Out.newSentiment.cs \in SentimentLabels
        /\ IF rawSent.kind = "str" /\ rawSent.cs \in SentimentLabels
             THEN Out.newSentiment = rawSent
             ELSE Out.newSentiment.cs = UNCLEAR

(* A case variant of a taxonomy name and of a label, resolved to the fallbacks. *)
TaxonomyClosedWitness ==
  /\ npc = "returned"
  /\ RawField("topic", PyNone) = PyStr(Lower(HealthTopic))
  /\ RawField("newSentiment", PyNone) = PyStr(Lower(ALLOWED_SENTIMENT[1]))
  /\ Out.topic_id = PyInt(15)
  /\ Out.newSentiment.cs = UNCLEAR

RawSentimentConfidence == RawField("newSentimentConfidence", PyFloat(0))
RawExceedsCap ==
  /\ ~FloatOf(RawSentimentConfidence).raised
  /\ FloatGreater(FloatOf(RawSentimentConfidence).val, 70)

(* C5: when the resolved topic is "Other / Unclear" and the raw              *)
(* newSentimentConfidence exceeds 0.7 the output is exactly 0.7; when the    *)
(* resolved topic is another name the output is the clamped raw value.       *)
CapOnResolvedTopic ==
  Returned =>
    /\ (Out.topic.cs = OTHER_TOPIC /\ RawExceedsCap) =>
         Out.newSentimentConfidence = PyFloat(70)
    /\ Out.topic.cs # OTHER_TOPIC =>
         Out.newSentimentConfidence = ToFloatClamped(RawSentimentConfidence)

(* An invalid raw topic, substituted, with a raw confidence of 1.0. *)
CapOnResolvedTopicWitness ==
  /\ npc = "returned"
  /\ RawField("topic", PyNone) = PyStr(Lower(HealthTopic))
  /\ RawSentimentConfidence = PyFloat(100)
  /\ Out.topic.cs = OTHER_TOPIC
  /\ Out.newSentimentConfidence = PyFloat(70)

RawRationaleIsStr ==
  /\ result.kind = "dict"
  /\ "rationale" \in DOMAIN result.d
  /\ result.d.rationale.kind = "str"
TrimmedRationale == Strip(result.d.rationale.cs)

(* C6 as claimed: a trimmed rationale of more than 120 characters comes out *)
(* as its first 120 characters and one ellipsis, 121 characters in all; a   *)
(* shorter one comes out unchanged.                                         *)
RationaleCutToExactly120 ==
  (Returned /\ RawRationaleIsStr) =>
    LET t == TrimmedRationale
    IN  IF Len(t) > 120
          THEN /\ Out.rationale.cs = SubSeq(t, 1, 120) \o <<Ellipsis>>
               /\ Len(Out.rationale.cs) = 121
          ELSE Out.rationale.cs = t

(* C6 as amended: a trimmed rationale of more than 120 characters comes out *)
(* as its first 120 characters without the whitespace they end in, and one  *)
(* ellipsis, at most 121 characters in all; a shorter one comes out         *)
(* unchanged.                                                               *)
RationaleCutAndRightStripped ==
  (Returned /\ RawRationaleIsStr) =>
    LET t == TrimmedRationale
    IN  IF Len(t) > 120
          THEN LET kept == CHOOSE k \in 1..120 :
                              /\ t[k] \notin Whitespace
                              /\ \A j \in (k + 1)..120 : t[j] \in Whitespace
               IN  /\ Out.rationale.cs = SubSeq(t, 1, kept) \o <<Ellipsis>>
                   /\ Len(Out.rationale.cs) <= 121
          ELSE Out.rationale.cs = t

(* The 120th character of the trimmed rationale is a blank. *)
RationaleCutWitness ==
  /\ npc = "returned"
  /\ RawRationaleIsStr
  /\ Len(TrimmedRationale) > 120
  /\ TrimmedRationale[120] = " "
  /\ Len(Out.rationale.cs) < 121

(* C7: both confidence fields of a returned record are numbers in [0.0, 1.0], *)
(* and 0.0 when the raw value does not convert to a number.                   *)
ConfidenceInUnitInterval ==
  Returned =>
    \A k \in {"confidence", "newSentimentConfidence"} :
      /\ Out[k].kind = "float"
      /\ Out[k].n >= 0 /\ Out[k].n <= 100
      /\ FloatOf(RawField(k, PyFloat(0))).raised => Out[k] = PyFloat(0)

(* C10: validate_and_normalize applied to a record it returned returns that *)
(* record again, field for field.                                           *)
Idempotent ==
  npc = "renormalized" => (~again.raised /\ again.val = record.val)

(* A record with a truncated rationale, no subtopic and a capped confidence. *)
IdempotentWitness ==
  /\ npc = "renormalized"
  /\ Len(Out.rationale.cs) = 121
  /\ Out.rationale.cs[121] = Ellipsis
  /\ Out.topic.cs = OTHER_TOPIC
  /\ Out.newSentimentConfidence = PyFloat(70)
  /\ RawSentimentConfidence = PyFloat(80)

-----------------------------------------------------------------------------
(* Properties of _do_call, under SpecExtract *)

Called == xpc \in {"returned", "raised"} /\ ~resp.raised /\ resp.val.kind = "str"
IsObjectText(t) == ~JsonLoads(t).raised /\ JsonLoads(t).val.kind = "dict"
NonJson(t) == JsonLoads(t).raised
Holds(t, c) == \E i \in 1..Len(t) : t[i] = c

(* A parse failure propagates only when the whole text does not parse and *)
(* the braces are missing or out of order or the text between them does   *)
(* not parse.                                                             *)
ParseFailureOnlyThen ==
  (Called /\ xout = Raise("JSONDecodeError")) =>
    /\ JsonLoads(raw_text).raised
    /\ \/ Find(raw_text, "{") = -1
       \/ RFind(raw_text, "}") = -1
       \/ RFind(raw_text, "}") <= Find(raw_text, "{")
       \/ JsonLoads(SubSeq(raw_text, Find(raw_text, "{") + 1,
                           RFind(raw_text, "}") + 1)).raised

(* C8 as claimed: for a text that is one JSON object with any non-JSON text *)
(* before and after it, the extraction yields that object and the record is *)
(* made from it; a parse failure propagates only in the cases above.        *)
ExtractionToleratesAnyNoise ==
  /\ (Called /\ IsObjectText(parts.body) /\ NonJson(parts.lead) /\ NonJson(parts.trail)) =>
       /\ raw = JsonLoads(parts.body)
       /\ xout = ValidateAndNormalize(JsonLoads(parts.body).val)
  /\ ParseFailureOnlyThen

(* C8 as amended: for a text that is one JSON object with text before it    *)
(* that holds no opening brace and text after it that holds no closing      *)
(* brace, the extraction yields the value of the whole text when the whole  *)
(* text is valid JSON and that object otherwise, and validate_and_normalize *)
(* is applied to what it yields; a parse failure propagates only in the     *)
(* cases above.                                                             *)
ExtractionToleratesBraceFreeNoise ==
  /\ (Called /\ IsObjectText(parts.body) /\ ~Holds(parts.lead, "{")
        /\ ~Holds(parts.trail, "}")) =>
       /\ raw = IF JsonLoads(Strip(OutputText(parts))).raised
                  THEN JsonLoads(parts.body)
                  ELSE JsonLoads(Strip(OutputText(parts)))
       /\ xout = ValidateAndNormalize(raw.val)
  /\ ParseFailureOnlyThen

(* "noise ", an object holding a topic, " trailing". *)
ExtractionWitness ==
  /\ Called
  /\ parts = [lead |-> NoiseTexts[1], body |-> ObjectTexts[2], trail |-> NoiseTexts[2]]
  /\ JsonLoads(raw_text).raised
  /\ raw = Return(PyDict([topic |-> PyStr(HealthTopic)]))
  /\ xpc = "returned"
  /\ xout.val.d.topic_id = PyInt(1)

-----------------------------------------------------------------------------
(* Properties of the batch loop, under SpecMain *)

IsErrorEntry(e) == "error" \in DOMAIN e /\ "topic" \notin DOMAIN e
IsRecordEntry(e) == "error" \notin DOMAIN e /\ "topic_id" \in DOMAIN e

(* C4: rows are taken one at a time in order; a row whose analysis fails,   *)
(* which it does only when all MAX_RETRIES attempts failed, does not abort  *)
(* the run; every row taken and finished has exactly one entry, in row      *)
(* order, which is the row's canonical record or an error entry with the    *)
(* message of the failure; at the end there is one entry per row.           *)
BatchOnePerRow ==
  /\ mpc # "aborted"
  /\ processed <= Len(rows)
  /\ Len(results) = IF mpc = "analyzing" THEN processed - 1 ELSE processed
  /\ rpc # "idle" => mpc = "analyzing"
  /\ rpc = "raised" => Len(history) = MAX_RETRIES
  /\ mpc = "done" => Len(results) = Len(rows)
  /\ \A i \in 1..Len(results) :
       /\ results[i].RowId = PyInt(rows[i].RowId)
       /\ results[i].Message = PyStr(rows[i].Message)
       /\ IsErrorEntry(results[i]) \/ IsRecordEntry(results[i])
  /\ (mpc \in {"loop", "done"} /\ processed >= 1) =>
       LET e == results[processed]
           last == history[Len(history)]
       IN  IF last.raised
             THEN IsErrorEntry(e) /\ e.error = [message_of |-> last.exc]
             ELSE /\ IsRecordEntry(e)
                  /\ \A k \in DOMAIN last.val.d : e[k] = last.val.d[k]

(* A row that failed on every attempt, then a row that was analysed. *)
BatchWitness ==
  /\ mpc = "done"
  /\ Len(rows) = 2
  /\ IsErrorEntry(results[1])
  /\ IsRecordEntry(results[2])
  /\ results[2].topic_id = PyInt(1)
====
